---- MODULE Spec2Model ----
(***************************************************************************)
(* Model of the network-connectivity layer of prediction_markets:          *)
(*   - RateLimiter and BaseRestClient.request   (base/rest_client.py)      *)
(*   - TokenBucketRateLimiter                    (common/rate_limiter.py)  *)
(*   - BaseWebSocketClient                       (base/websocket_client.py)*)
(* Coroutines are modelled as processes with a program counter; one action *)
(* is the code a coroutine runs between two suspension points (awaits).    *)
(***************************************************************************)
EXTENDS Integers, Sequences, FiniteSets, TLC

Min(a, b) == IF a <= b THEN a ELSE b

RECURSIVE Pow(_, _)
Pow(b, e) == IF e = 0 THEN 1 ELSE b * Pow(b, e - 1)

(***************************************************************************)
(* Bounds of the model.                                                    *)
(***************************************************************************)
\* the clock runs from 0 to MaxTime ticks
MaxTime == 5
\* one token is Scale token units; one tick refills one unit
Scale == 2
\* RateLimiter(rate, interval): rate tokens per interval
RL_rate == 1
\* largest rate argument a RateLimiter is constructed with in SpecBucket
MaxRate == 5
\* TokenBucketRateLimiter(rate, burst): burst tokens
TB_burst == 2
\* largest number of tokens one TokenBucketRateLimiter call asks for
TB_MaxAsk == 2
\* concurrent callers of a limiter
NumCallers == 2
\* largest configured retry_attempts
MaxRetry == 2
\* request() calls made one after the other
MaxCalls == 1
\* largest configured retry_attempts, and the ticks of time, in SpecBackoff
MaxBackoff == 6
MaxBackoffTime == 10

\* concurrent callers of the WebSocket client's API
NumUsers == 2
\* API calls made in one behaviour of SpecWs, SpecSubs, SpecTasks
MaxOps == 2
SubOps == 3
TaskOps == 2
\* transport streams opened in one behaviour
MaxConn == 2
\* inbound frames read in one behaviour
MaxFrames == 2
\* self.config.reconnect_attempts
reconnect_attempts == 2
\* self.config.message_queue_size
message_queue_size == 1
\* registered general-message listeners (on_message)
NumListeners == 1

Callers == 1..NumCallers
\* the coroutine running request(); it is caller 1 of the client's limiter
Requester == 1

VARIABLES
    now,            \* time.monotonic(), in ticks
    lim_kind,       \* the class of the limiter instance the callers share
    \* --- RateLimiter (rest_client.py) ---
    rl_rate,        \* self.rate, as given to __init__ and never assigned again
    rl_tokens,      \* self.tokens, in token units (tokens * Scale)
    rl_last,        \* self.last_update
    rl_lock,        \* holder of self._lock, 0 when free
    rl_waiters,     \* FIFO of callers waiting for self._lock
    rl_pc,          \* per caller: "none", "queued", "granted", "sleeping", "done", "raised"
    rl_wake,        \* per caller: earliest time its asyncio.sleep returns
    rl_returned,    \* history: acquire() calls that have returned so far
    \* --- TokenBucketRateLimiter (rate_limiter.py) ---
    tb_tokens,
    tb_last,
    tb_lock,
    tb_waiters,
    tb_pc,          \* per caller: "none", "queued", "granted", "sleeping", "done"
    tb_wake,
    tb_ask,         \* per caller: the tokens argument of its acquire()
    \* --- BaseRestClient.request ---
    retry_attempts, \* self.config.retry_attempts
    rq_pc,          \* "idle", "signing", "acquire", "inflight", "backoff", "returned", "raised"
    rq_attempt,     \* the loop variable attempt
    rq_last_error,  \* last_error
    rq_result,      \* the error raised to the caller, or the response returned
    rq_hist,        \* outcomes of the physical attempts of this call, in order
    rq_sleeps,      \* backoff delays slept in this call, in order
    rq_acq,         \* RateLimiter.acquire() calls completed in this call
    rq_auth,        \* auth_required of this call
    rq_calls,       \* request() calls started so far
    \* --- BaseWebSocketClient: its fields, its coroutines, and the history ---
    cl

limVars == <<rl_tokens, rl_last, rl_lock, rl_waiters, rl_pc, rl_wake, rl_returned>>
tbVars == <<tb_tokens, tb_last, tb_lock, tb_waiters, tb_pc, tb_wake, tb_ask>>
restVars == <<retry_attempts, rq_pc, rq_attempt, rq_last_error, rq_result,
              rq_hist, rq_sleeps, rq_acq, rq_auth, rq_calls>>
vars == <<now, lim_kind, rl_rate, limVars, tbVars, restVars, cl>>

(***************************************************************************)
(* Time.                                                                   *)
(***************************************************************************)
TickTo(horizon) ==
    /\ now < horizon
    /\ now' = now + 1
    /\ UNCHANGED <<lim_kind, rl_rate, limVars, tbVars, restVars, cl>>

Tick == TickTo(MaxTime)

(***************************************************************************)
(* asyncio.Lock: free lock is taken at once, otherwise the caller queues;  *)
(* release hands the lock to the first waiter.                             *)
(***************************************************************************)
LockHolderAfterRelease(waiters) == IF waiters = <<>> THEN 0 ELSE Head(waiters)
LockWaitersAfterRelease(waiters) == IF waiters = <<>> THEN <<>> ELSE Tail(waiters)

(***************************************************************************)
(* RateLimiter (rest_client.py).  Time unit: the interval is               *)
(* RL_interval ticks, chosen for the rate of the instance so that the      *)
(* refill and the wait are whole.                                          *)
(***************************************************************************)
RL_interval == IF rl_rate = 0 THEN Scale ELSE rl_rate * Scale
RL_capacity == rl_rate * Scale

\* self.tokens + elapsed * (self.rate / self.interval), capped at self.rate
RL_Refill(tokens, elapsed) ==
    Min(RL_capacity, tokens + (elapsed * rl_rate * Scale) \div RL_interval)

\* variant: (1 - self.tokens) * self.interval
RL_WaitTime_WholeInterval(tokens) == ((Scale - tokens) * RL_interval) \div Scale

\* (1 - self.tokens) * (self.interval / self.rate), for self.rate # 0
RL_WaitTime(tokens) == ((Scale - tokens) * RL_interval) \div (rl_rate * Scale)

\* variant: "self.tokens -= 1" after the sleep
RL_TokensAfterSleep_Minus(tokens) == tokens - Scale

\* self.tokens = 0 after the sleep
RL_TokensAfterSleep(tokens) == 0

\* self.tokens -= 1
RL_Consume(tokens) == tokens - Scale

\* pc of every caller once c has released the lock: c is done, the first
\* waiter is woken holding the lock
PcAfterRelease(pc, c, waiters) ==
    [x \in Callers |->
        IF x = c THEN "done"
        ELSE IF waiters # <<>> /\ x = Head(waiters) THEN "granted"
        ELSE pc[x]]

\* the body of acquire() under the lock, up to the sleep or the return
RL_Critical(c) ==
    LET t == RL_Refill(rl_tokens, now - rl_last) IN
    /\ rl_last' = now
    /\ IF t < Scale /\ rl_rate = 0
       THEN \* "self.interval / self.rate" raises ZeroDivisionError, which
            \* leaves the "async with" block
            /\ rl_tokens' = t
            /\ rl_pc' = [PcAfterRelease(rl_pc, c, rl_waiters) EXCEPT ![c] = "raised"]
            /\ rl_lock' = LockHolderAfterRelease(rl_waiters)
            /\ rl_waiters' = LockWaitersAfterRelease(rl_waiters)
            /\ UNCHANGED <<rl_wake, rl_returned>>
       ELSE IF t < Scale
       THEN /\ rl_tokens' = t
            /\ rl_wake' = [rl_wake EXCEPT ![c] = now + RL_WaitTime(t)]
            /\ rl_pc' = [rl_pc EXCEPT ![c] = "sleeping"]
            /\ rl_lock' = c
            /\ UNCHANGED <<rl_waiters, rl_returned>>
       ELSE /\ rl_tokens' = RL_Consume(t)
            /\ rl_pc' = PcAfterRelease(rl_pc, c, rl_waiters)
            /\ rl_lock' = LockHolderAfterRelease(rl_waiters)
            /\ rl_waiters' = LockWaitersAfterRelease(rl_waiters)
            /\ rl_returned' = rl_returned + 1
            /\ UNCHANGED rl_wake

\* acquire() is called: "async with self._lock"
RL_Call(c) ==
    /\ rl_pc[c] = "none"
    /\ IF rl_lock = 0
       THEN RL_Critical(c)
       ELSE /\ rl_waiters' = Append(rl_waiters, c)
            /\ rl_pc' = [rl_pc EXCEPT ![c] = "queued"]
            /\ UNCHANGED <<rl_tokens, rl_last, rl_lock, rl_wake, rl_returned>>

\* a waiter that was handed the lock runs the body
RL_Granted(c) ==
    /\ rl_pc[c] = "granted"
    /\ rl_lock = c
    /\ RL_Critical(c)

\* asyncio.sleep(wait_time) returns: self.tokens = 0, the lock is released
RL_Wake(c) ==
    /\ rl_pc[c] = "sleeping"
    /\ now >= rl_wake[c]
    /\ rl_tokens' = RL_TokensAfterSleep(rl_tokens)
    /\ rl_pc' = PcAfterRelease(rl_pc, c, rl_waiters)
    /\ rl_lock' = LockHolderAfterRelease(rl_waiters)
    /\ rl_waiters' = LockWaitersAfterRelease(rl_waiters)
    /\ rl_returned' = rl_returned + 1
    /\ UNCHANGED <<rl_last, rl_wake>>

\* acquire() has returned to its caller, or has raised
RL_Return(c) ==
    /\ rl_pc[c] \in {"done", "raised"}
    /\ rl_pc' = [rl_pc EXCEPT ![c] = "none"]
    /\ UNCHANGED <<rl_tokens, rl_last, rl_lock, rl_waiters, rl_wake, rl_returned>>

(***************************************************************************)
(* TokenBucketRateLimiter (rate_limiter.py).  rate is one token unit per   *)
(* tick, that is 1/Scale token per tick.                                   *)
(***************************************************************************)
TB_capacity == TB_burst * Scale

\* min(self.burst, self.tokens + elapsed * self.rate)
TB_Refill(tokens, elapsed) == Min(TB_capacity, tokens + elapsed)

\* (tokens - self.tokens) / self.rate
TB_WaitTime(ask, tokens) == ask * Scale - tokens

\* self.tokens -= tokens
TB_Consume(tokens, ask) == tokens - ask * Scale

\* one pass of the "while True" loop of acquire(tokens=ask), under the lock
TB_Loop(c, ask) ==
    LET t == TB_Refill(tb_tokens, now - tb_last) IN
    /\ tb_last' = now
    /\ IF t >= ask * Scale
       THEN /\ tb_tokens' = TB_Consume(t, ask)
            /\ tb_pc' = PcAfterRelease(tb_pc, c, tb_waiters)
            /\ tb_lock' = LockHolderAfterRelease(tb_waiters)
            /\ tb_waiters' = LockWaitersAfterRelease(tb_waiters)
            /\ UNCHANGED tb_wake
       ELSE /\ tb_tokens' = t
            /\ tb_wake' = [tb_wake EXCEPT ![c] = now + TB_WaitTime(ask, t)]
            /\ tb_pc' = [tb_pc EXCEPT ![c] = "sleeping"]
            /\ tb_lock' = c
            /\ UNCHANGED tb_waiters

\* acquire(tokens=ask) is called: "async with self._lock"
TB_acquire(c, ask) ==
    /\ tb_pc[c] = "none"
    /\ tb_ask' = [tb_ask EXCEPT ![c] = ask]
    /\ IF tb_lock = 0
       THEN TB_Loop(c, ask)
       ELSE /\ tb_waiters' = Append(tb_waiters, c)
            /\ tb_pc' = [tb_pc EXCEPT ![c] = "queued"]
            /\ UNCHANGED <<tb_tokens, tb_last, tb_lock, tb_wake>>

\* a waiter that was handed the lock enters the loop
TB_Granted(c) ==
    /\ tb_pc[c] = "granted"
    /\ tb_lock = c
    /\ TB_Loop(c, tb_ask[c])
    /\ UNCHANGED tb_ask

\* asyncio.sleep(wait_time) returns: the loop runs again
TB_Wake(c) ==
    /\ tb_pc[c] = "sleeping"
    /\ now >= tb_wake[c]
    /\ TB_Loop(c, tb_ask[c])
    /\ UNCHANGED tb_ask

\* acquire() has returned to its caller
TB_Return(c) ==
    /\ tb_pc[c] = "done"
    /\ tb_pc' = [tb_pc EXCEPT ![c] = "none"]
    /\ UNCHANGED <<tb_tokens, tb_last, tb_lock, tb_waiters, tb_wake, tb_ask>>

\* try_acquire(tokens=ask): synchronous, takes no lock
TB_try_acquire(c, ask) ==
    LET t == TB_Refill(tb_tokens, now - tb_last) IN
    /\ tb_pc[c] = "none"
    /\ tb_last' = now
    /\ tb_tokens' = IF t >= ask * Scale THEN TB_Consume(t, ask) ELSE t
    /\ UNCHANGED <<tb_lock, tb_waiters, tb_pc, tb_wake, tb_ask>>

(***************************************************************************)
(* BaseRestClient.request (rest_client.py).                                *)
(***************************************************************************)
\* RestConfig defaults
retry_delay == 1
retry_delay_max == 10
retry_multiplier == 2

\* what one physical attempt (_make_request and the parsing of its response)
\* can end in: a decoded response, or an exception; status is the status of
\* the response that was received, 0 when the attempt raised before one was
\* (a response whose body _parse_response cannot decode raises after it);
\* etype is the exception class _parse_error returns for an error status
Outcomes ==
    {[kind |-> "response", status |-> 200, etype |-> "none"],
     [kind |-> "Exception", status |-> 200, etype |-> "none"]}
    \cup {[kind |-> "response", status |-> s, etype |-> t] :
             s \in {404, 500},
             t \in {"AuthenticationError", "ExchangeError", "RateLimitError"}}
    \cup {[kind |-> k, status |-> 0, etype |-> "none"] :
             k \in {"ClientConnectorError", "asyncio.TimeoutError",
                    "Exception", "RateLimitError"}}

\* an exception object: its class, who built it, and the attempt it belongs to
NoError == [type |-> "none", src |-> "none", at |-> 0]
Error(type, src, at) == [type |-> type, src |-> src, at |-> at]

\* error = self._parse_error(response.status, response_data)
ParseError(o, k) == Error(o.etype, "hook", k)

\* the except clauses of request(): what becomes of exception exc, of class
\* cls, raised inside the try block of attempt k
ExceptClauses(cls, exc, k) ==
    IF cls = "ClientConnectorError"
    THEN [propagate |-> FALSE, last_error |-> Error("ConnectionError", "request", k)]
    ELSE IF cls = "asyncio.TimeoutError"
    THEN [propagate |-> FALSE, last_error |-> Error("TimeoutError", "request", k)]
    ELSE IF cls = "RateLimitError"
    THEN [propagate |-> TRUE, last_error |-> exc]
    ELSE [propagate |-> FALSE, last_error |-> Error("NetworkError", "request", k)]

\* the try block of attempt k for outcome o:
\*   [returned, propagate, last_error]; last_error is NoError when the block
\*   leaves last_error as it was
TryBlock(o, k) ==
    IF o.kind = "response"
    THEN IF o.status >= 400
         THEN IF o.etype = "AuthenticationError" \/ o.status < 500
              THEN \* "raise error" is inside the try block
                   [returned |-> FALSE] @@ ExceptClauses(o.etype, ParseError(o, k), k)
              ELSE [returned |-> FALSE, propagate |-> FALSE,
                    last_error |-> ParseError(o, k)]
         ELSE [returned |-> TRUE, propagate |-> FALSE, last_error |-> NoError]
    ELSE [returned |-> FALSE]
         @@ ExceptClauses(o.kind, Error(o.kind, "raised", k), k)

\* variant: the loop gives up one attempt early
IsLastAttempt_Early(attempt) == ~(attempt < retry_attempts - 2)

\* if attempt < self.config.retry_attempts - 1: sleep, else leave the loop
IsLastAttempt(attempt) == ~(attempt < retry_attempts - 1)

\* variant: the delay is not capped
BackoffDelay_Uncapped(attempt) == retry_delay * Pow(retry_multiplier, attempt)

\* min(retry_delay * retry_multiplier ** attempt, retry_delay_max)
BackoffDelay(attempt) ==
    Min(retry_delay * Pow(retry_multiplier, attempt), retry_delay_max)

\* raise last_error or NetworkError("Request failed")
ExhaustedError(last) ==
    IF last = NoError THEN Error("NetworkError", "request", 0) ELSE last

\* variant: the limiter is asked once per call, before the first attempt
EnterLoop_AcquireOnce(attempt, last) ==
    /\ rq_attempt' = attempt
    /\ IF attempt < retry_attempts
       THEN /\ rq_pc' = IF attempt = 0 THEN "acquire" ELSE "inflight"
            /\ UNCHANGED rq_result
       ELSE /\ rq_pc' = "raised"
            /\ rq_result' = ExhaustedError(last)

\* "for attempt in range(retry_attempts)": the next iteration, or the raise
\* after the loop
EnterLoop(attempt, last) ==
    /\ rq_attempt' = attempt
    /\ IF attempt < retry_attempts
       THEN /\ rq_pc' = "acquire"
            /\ UNCHANGED rq_result
       ELSE /\ rq_pc' = "raised"
            /\ rq_result' = ExhaustedError(last)

\* request(..., auth_required=auth) is called
request(auth) ==
    /\ rq_pc = "idle"
    /\ rq_calls < MaxCalls
    /\ rq_calls' = rq_calls + 1
    /\ rq_auth' = auth
    /\ rq_last_error' = NoError
    /\ IF auth
       THEN /\ rq_pc' = "signing"
            /\ UNCHANGED <<rq_attempt, rq_result>>
       ELSE EnterLoop(0, NoError)
    /\ UNCHANGED <<cl, now, lim_kind, rl_rate, limVars, tbVars, retry_attempts, rq_hist, rq_sleeps, rq_acq>>

\* variant: a failure of the signing hook is swallowed and the loop entered
ReqSigned_Swallowed(ok) ==
    /\ rq_pc = "signing"
    /\ EnterLoop(0, NoError)
    /\ UNCHANGED <<cl, now, lim_kind, rl_rate, limVars, tbVars, retry_attempts, rq_last_error, rq_hist,
                   rq_sleeps, rq_acq, rq_auth, rq_calls>>

\* await self._sign_request(...) returns the headers, or raises
ReqSigned(ok) ==
    /\ rq_pc = "signing"
    /\ IF ok
       THEN EnterLoop(0, NoError)
       ELSE /\ rq_pc' = "raised"
            /\ rq_result' = Error("SignError", "sign", 0)
            /\ UNCHANGED rq_attempt
    /\ UNCHANGED <<cl, now, lim_kind, rl_rate, limVars, tbVars, retry_attempts, rq_last_error, rq_hist,
                   rq_sleeps, rq_acq, rq_auth, rq_calls>>

\* await self._rate_limiter.acquire()
ReqAcquire ==
    /\ rq_pc = "acquire"
    /\ RL_Call(Requester)
    /\ rq_pc' = "acquiring"
    /\ UNCHANGED <<cl, now, lim_kind, rl_rate, tbVars, retry_attempts, rq_attempt, rq_last_error, rq_result,
                   rq_hist, rq_sleeps, rq_acq, rq_auth, rq_calls>>

\* the sleep inside acquire() ends
ReqAcquireWake ==
    /\ rq_pc = "acquiring"
    /\ RL_Wake(Requester)
    /\ UNCHANGED <<cl, now, lim_kind, rl_rate, tbVars, restVars>>

\* acquire() has returned: self._make_request(...) is issued
ReqSend ==
    /\ rq_pc = "acquiring"
    /\ RL_Return(Requester)
    /\ rq_acq' = rq_acq + 1
    /\ rq_pc' = "inflight"
    /\ UNCHANGED <<cl, now, lim_kind, rl_rate, tbVars, retry_attempts, rq_attempt, rq_last_error, rq_result,
                   rq_hist, rq_sleeps, rq_auth, rq_calls>>

\* the physical attempt ends in outcome o: the rest of the loop body
ReqResponse(o) ==
    LET k == Len(rq_hist) + 1
        r == TryBlock(o, k)
        last == IF r.last_error = NoError THEN rq_last_error ELSE r.last_error
    IN
    /\ rq_pc = "inflight"
    /\ rq_hist' = Append(rq_hist, o)
    /\ IF r.returned
       THEN /\ rq_pc' = "returned"
            /\ rq_result' = Error("RestResponse", "request", k)
            /\ UNCHANGED <<rq_last_error, rq_sleeps>>
       ELSE IF r.propagate
       THEN /\ rq_pc' = "raised"
            /\ rq_result' = r.last_error
            /\ UNCHANGED <<rq_last_error, rq_sleeps>>
       ELSE /\ rq_last_error' = last
            /\ IF IsLastAttempt(rq_attempt)
               THEN /\ rq_pc' = "raised"
                    /\ rq_result' = ExhaustedError(last)
                    /\ UNCHANGED rq_sleeps
               ELSE /\ rq_pc' = "backoff"
                    /\ rq_sleeps' = Append(rq_sleeps, BackoffDelay(rq_attempt))
                    /\ UNCHANGED rq_result
    /\ UNCHANGED <<cl, now, lim_kind, rl_rate, limVars, tbVars, retry_attempts, rq_attempt, rq_acq,
                   rq_auth, rq_calls>>

\* await asyncio.sleep(delay) returns: the next iteration begins
ReqBackoffDone ==
    /\ rq_pc = "backoff"
    /\ EnterLoop(rq_attempt + 1, rq_last_error)
    /\ UNCHANGED <<cl, now, lim_kind, rl_rate, limVars, tbVars, retry_attempts, rq_last_error, rq_hist,
                   rq_sleeps, rq_acq, rq_auth, rq_calls>>

\* the caller has consumed the outcome of the call
ReqFinish ==
    /\ rq_pc \in {"returned", "raised"}
    /\ rq_pc' = "idle"
    /\ rq_hist' = <<>>
    /\ rq_sleeps' = <<>>
    /\ rq_acq' = 0
    /\ rq_attempt' = 0
    /\ rq_result' = NoError
    /\ rq_last_error' = NoError
    /\ UNCHANGED <<cl, now, lim_kind, rl_rate, limVars, tbVars, retry_attempts, rq_auth, rq_calls>>

(***************************************************************************)
(* BaseWebSocketClient (websocket_client.py).                              *)
(*                                                                         *)
(* cl is the client: its fields (state, ws, subs, queue, handles,          *)
(* reconnect_count, should_reconnect), the coroutines running its code     *)
(* (API callers, and per started connection a receive, a heartbeat and a   *)
(* process task), the transport streams, and history fields.               *)
(* Each operator below maps a client to the client after the code a        *)
(* coroutine runs up to its next await.                                    *)
(***************************************************************************)
Users == 1..NumUsers
Gens == 1..MaxConn
\* the task running _receive_loop of the g-th started connection
RecvTask(g) == NumUsers + g
Tasks == 1..(NumUsers + MaxConn)
IsUser(t) == t <= NumUsers
GenOf(t) == t - NumUsers

\* sorted(params.items()): params is a sequence of <<name, value>> pairs in
\* insertion order, names are unique
RECURSIVE InsertSorted(_, _)
InsertSorted(p, sorted) ==
    IF sorted = <<>> THEN <<p>>
    ELSE IF p[1] <= Head(sorted)[1] THEN <<p>> \o sorted
    ELSE <<Head(sorted)>> \o InsertSorted(p, Tail(sorted))

RECURSIVE SortItems(_)
SortItems(params) ==
    IF params = <<>> THEN <<>>
    ELSE InsertSorted(Head(params), SortItems(Tail(params)))

\* variant: the pairs joined in insertion order
get_subscription_key_Unsorted(channel, params) ==
    IF params = <<>> THEN <<channel>> ELSE <<channel, params>>

\* the key string: channel alone, or channel "?" the sorted name=value pairs
\* joined by "&"
get_subscription_key(channel, params) ==
    IF params = <<>> THEN <<channel>> ELSE <<channel, SortItems(params)>>

\* arguments of subscribe()/unsubscribe(): channel, params, has a callback
SubReqs ==
    { [channel |-> 1, params |-> <<>>, callback |-> FALSE],
      [channel |-> 1, params |-> << <<1, 7>>, <<2, 8>> >>, callback |-> TRUE],
      [channel |-> 1, params |-> << <<2, 8>>, <<1, 7>> >>, callback |-> TRUE] }

KeyOf(req) == get_subscription_key(req.channel, req.params)
SubKeys == {KeyOf(r) : r \in SubReqs}
NoReq == [channel |-> 0, params |-> <<>>, callback |-> FALSE]

\* self._subscriptions: a dict, kept as the sequence of its items
HasKey(subs, k) == \E i \in DOMAIN subs : subs[i].key = k
Lookup(subs, k) == subs[CHOOSE i \in DOMAIN subs : subs[i].key = k].sub
PutSub(subs, k, sub) ==
    IF HasKey(subs, k)
    THEN [i \in DOMAIN subs |-> IF subs[i].key = k THEN [key |-> k, sub |-> sub] ELSE subs[i]]
    ELSE Append(subs, [key |-> k, sub |-> sub])

\* raw inbound frames: one the parse hook rejects, heartbeat responses and
\* data frames, whose extracted channel is a key or None
Frames ==
    {[kind |-> "garbage", key |-> <<>>], [kind |-> "pong", key |-> <<>>],
     [kind |-> "data", key |-> <<>>]}
    \cup {[kind |-> c, key |-> k] : c \in {"data", "pong"}, k \in SubKeys}

\* variant: no message is classified as a heartbeat response
is_heartbeat_response_Never(m) == FALSE

\* _is_heartbeat_response(message)
is_heartbeat_response(m) == m.kind = "pong"

\* is_connected
is_connected(w) == w.state = "connected" /\ w.ws # 0

NoLoc == [req |-> NoReq, pend |-> <<>>, snap |-> <<>>, sent |-> <<>>,
          sstream |-> 0, dq |-> <<>>, bound |-> 0, msg |-> <<>>, delay |-> 0]
NoProc == [pc |-> "none", msg |-> <<>>, idx |-> 0]

InitClient ==
    [ state |-> "disconnected",
      ws |-> 0,
      streams |-> [s \in Gens |-> "unopened"],
      subs |-> <<>>,
      queue |-> <<>>,
      handles |-> [receive_task |-> 0, heartbeat_task |-> 0, process_task |-> 0],
      reconnect_count |-> 0,
      should_reconnect |-> TRUE,
      \* coroutines
      pc |-> [t \in Tasks |-> IF IsUser(t) THEN "idle" ELSE "none"],
      op |-> [t \in Tasks |-> "none"],
      loc |-> [t \in Tasks |-> NoLoc],
      hb |-> [g \in Gens |-> "none"],
      proc |-> [g \in Gens |-> NoProc],
      \* history
      last |-> [u \in Users |-> [op |-> "none", res |-> "none", req |-> NoReq]],
      conc |-> [u \in Users |-> FALSE],
      wit |-> [t \in Tasks |-> {}],
      rivals |-> [s \in Gens |-> {}],
      frames |-> [s \in Gens |-> [k \in SubKeys |-> 0]],
      resub |-> [t \in Tasks |-> "none"],
      rs_snap |-> [t \in Tasks |-> <<>>],
      rs_sent |-> [t \in Tasks |-> <<>>],
      at_loss |-> [s \in Gens |-> <<>>],
      hb_log |-> {},
      fb |-> [g \in Gens |-> 0],
      tries |-> [g \in Gens |-> 0],
      episode |-> [g \in Gens |-> "none"],
      cfg |-> [ops |-> 0, users |-> 0, frames |-> 0, hb_msgs |-> {}],
      n_ops |-> 0,
      n_read |-> 0,
      n_pong |-> 0,
      cb_log |-> {},
      lst_log |-> {} ]

\* ---- how a call ends ----------------------------------------------------

\* an API call of user u returns (res = "ok") or raises res
FinishOp(w, u, res) ==
    [w EXCEPT !.pc[u] = "idle",
              !.last[u] = [op |-> w.op[u], res |-> res, req |-> w.loc[u].req],
              !.op[u] = "none",
              !.loc[u] = NoLoc]

\* WebSocketConfig defaults, in seconds
reconnect_delay == 1
reconnect_delay_max == 60
reconnect_multiplier == 2

\* min(reconnect_delay * reconnect_multiplier ** count, reconnect_delay_max)
ReconnectDelay(count) ==
    Min(reconnect_delay * Pow(reconnect_multiplier, count), reconnect_delay_max)

\* variant: the exhausted branch leaves self._state as it finds it
ReconnectLoop_KeepState(w, t) ==
    IF w.reconnect_count < reconnect_attempts
    THEN [w EXCEPT !.reconnect_count = @ + 1,
                   !.pc[t] = "backoff",
                   !.loc[t] = [NoLoc EXCEPT !.delay = ReconnectDelay(w.reconnect_count)]]
    ELSE [w EXCEPT !.pc[t] = "fallback",
                   !.loc[t] = NoLoc,
                   !.fb[GenOf(t)] = @ + 1,
                   !.episode[GenOf(t)] = "exhausted"]

\* _reconnect, the loop "while self._reconnect_count < reconnect_attempts":
\* the next backoff sleep, or the fallback once the attempts are used up
ReconnectLoop(w, t) ==
    IF w.reconnect_count < reconnect_attempts
    THEN [w EXCEPT !.reconnect_count = @ + 1,
                   !.pc[t] = "backoff",
                   !.loc[t] = [NoLoc EXCEPT !.delay = ReconnectDelay(w.reconnect_count)]]
    ELSE [w EXCEPT !.state = "disconnected",
                   !.pc[t] = "fallback",
                   !.loc[t] = NoLoc,
                   !.fb[GenOf(t)] = @ + 1,
                   !.episode[GenOf(t)] = "exhausted"]

\* _reconnect is entered by the receive task t
reconnect(w, t) ==
    IF ~w.should_reconnect
    THEN [w EXCEPT !.pc[t] = "done", !.loc[t] = NoLoc]
    ELSE ReconnectLoop([w EXCEPT !.state = "reconnecting",
                                 !.tries[GenOf(t)] = 0,
                                 !.episode[GenOf(t)] = "running"], t)

\* connect() returns to the caller: an API caller, or _reconnect, which
\* returns in turn and ends the receive task
ConnectReturns(w, t) ==
    IF IsUser(t)
    THEN FinishOp(w, t, "ok")
    ELSE [w EXCEPT !.pc[t] = "done", !.loc[t] = NoLoc,
                   !.episode[GenOf(t)] = "reconnected"]

\* connect() raises WebSocketConnectionError: to the API caller, or to
\* _reconnect, which catches it and continues its loop
ConnectRaises(w, t) ==
    IF IsUser(t)
    THEN FinishOp(w, t, "WebSocketConnectionError")
    ELSE ReconnectLoop([w EXCEPT !.tries[GenOf(t)] = @ + 1], t)

\* ---- subscribe / _resubscribe_all ---------------------------------------

\* _resubscribe_all from the entry at the head of pend, up to the next send:
\* subscribe() raises WebSocketDisconnectedError when not connected (it is not
\* caught by the loop, and connect() turns it into a connection error),
\* returns at once for a key already in the registry, and sends otherwise
RECURSIVE ResubScan(_, _)
ResubScan(w, t) ==
    LET pend == w.loc[t].pend IN
    IF pend = <<>>
    THEN ConnectReturns([w EXCEPT !.resub[t] = "finished"], t)
    ELSE IF ~is_connected(w)
    THEN ConnectRaises([w EXCEPT !.state = "disconnected",
                                 !.resub[t] = "aborted"], t)
    ELSE IF HasKey(w.subs, KeyOf(Head(pend)))
    THEN ResubScan([w EXCEPT !.loc[t].pend = Tail(pend)], t)
    ELSE [w EXCEPT !.pc[t] = "resub_send",
                   !.loc[t].sstream = w.ws,
                   !.frames[w.ws][KeyOf(Head(pend))] = @ + 1,
                   !.rs_sent[t] = Append(@, KeyOf(Head(pend)))]

\* _resubscribe_all: snapshot the registry, clear it, subscribe each entry
resubscribe_all(w, t) ==
    ResubScan([w EXCEPT !.subs = <<>>,
                        !.loc[t].pend = [i \in DOMAIN w.subs |-> w.subs[i].sub],
                        !.resub[t] = "running",
                        !.rs_snap[t] = [i \in DOMAIN w.subs |-> w.subs[i].key],
                        !.rs_sent[t] = <<>>], t)

\* the send of a resubscription completes (ok) or fails; a failure is a
\* WebSocketSubscriptionError, which the loop logs
ResubSent(w, t, ok) ==
    LET sub == Head(w.loc[t].pend)
        w1 == IF ok THEN [w EXCEPT !.subs = PutSub(@, KeyOf(sub), sub)] ELSE w
    IN ResubScan([w1 EXCEPT !.loc[t].pend = Tail(@)], t)

\* subscribe(channel, params, callback) called by user u
subscribe(w, u, req) ==
    LET w0 == [w EXCEPT !.loc[u].req = req] IN
    IF ~is_connected(w)
    THEN FinishOp(w0, u, "WebSocketDisconnectedError")
    ELSE IF HasKey(w.subs, KeyOf(req))
    THEN FinishOp(w0, u, "ok")
    ELSE [w0 EXCEPT !.pc[u] = "sub_send",
                    !.loc[u].sstream = w.ws,
                    !.frames[w.ws][KeyOf(req)] = @ + 1]

\* variant: the Subscription is stored before the send is known to succeed
SubscribeSent_StoreFirst(w, u, ok) ==
    FinishOp([w EXCEPT !.subs = PutSub(@, KeyOf(w.loc[u].req), w.loc[u].req)],
             u, IF ok THEN "ok" ELSE "WebSocketSubscriptionError")

\* the send of subscribe() completes and the Subscription is stored, or fails
SubscribeSent(w, u, ok) ==
    IF ok
    THEN FinishOp([w EXCEPT !.subs = PutSub(@, KeyOf(w.loc[u].req), w.loc[u].req)],
                  u, "ok")
    ELSE FinishOp(w, u, "WebSocketSubscriptionError")

\* unsubscribe(channel, params) called by user u
unsubscribe(w, u, req) ==
    LET w0 == [w EXCEPT !.loc[u].req = req] IN
    IF ~is_connected(w) \/ ~HasKey(w.subs, KeyOf(req))
    THEN FinishOp(w0, u, "ok")
    ELSE [w0 EXCEPT !.pc[u] = "unsub_send",
                    !.loc[u].sstream = w.ws]

\* the send of unsubscribe() completes and the entry is deleted, or fails
\* and the failure is logged
UnsubscribeSent(w, u, ok) ==
    IF ok
    THEN FinishOp([w EXCEPT !.subs = SelectSeq(@, LAMBDA e : e.key # KeyOf(w.loc[u].req))], u, "ok")
    ELSE FinishOp(w, u, "ok")

\* ---- connect ------------------------------------------------------------

\* connect() up to "await asyncio.wait_for(websockets.connect(...))"
connect(w, t) ==
    IF w.state = "connected"
    THEN ConnectReturns(w, t)
    ELSE [w EXCEPT !.should_reconnect = TRUE,
                   !.state = "connecting",
                   !.pc[t] = "opening",
                   !.wit[t] = {}]

\* variant: a failed open leaves self._state at CONNECTING
OpenFailed_KeepState(w, t) == ConnectRaises(w, t)

\* opening the stream timed out or failed
OpenFailed(w, t) == ConnectRaises([w EXCEPT !.state = "disconnected"], t)

\* the stream s was opened: the rest of the try block up to the first await,
\* in which the three tasks are created (w2); listeners tells whether an
\* on-connect listener is registered
OpenSucceeded(w, t, s, listeners) ==
    LET w1 == [w EXCEPT !.ws = s,
                        !.streams[s] = "open",
                        !.state = "connected",
                        !.reconnect_count = 0,
                        !.rivals[s] = w.wit[t],
                        !.wit = [x \in Tasks |->
                                    IF x # t /\ w.pc[x] = "opening"
                                    THEN w.wit[x] \cup {s} ELSE w.wit[x]]]
        w2 == [w1 EXCEPT !.handles = [receive_task |-> s, heartbeat_task |-> s,
                                      process_task |-> s],
                         !.pc[RecvTask(s)] = "created",
                         !.hb[s] = "check",
                         !.proc[s] = [NoProc EXCEPT !.pc = "get"]]
    IN IF listeners
       THEN [w2 EXCEPT !.pc[t] = "on_connect"]
       ELSE resubscribe_all(w2, t)

\* "await callback()" of the on-connect listener returns (ok) or raises
OnConnectDone(w, t, ok) ==
    IF ok
    THEN resubscribe_all(w, t)
    ELSE ConnectRaises([w EXCEPT !.state = "disconnected"], t)

\* ---- disconnect ---------------------------------------------------------

TaskLive(w, h) ==
    IF h.kind = "recv" THEN w.pc[RecvTask(h.gen)] \notin {"none", "done", "cancelled", "raised"}
    ELSE IF h.kind = "hb" THEN w.hb[h.gen] \notin {"none", "done", "cancelled"}
    ELSE w.proc[h.gen].pc \notin {"none", "done", "cancelled", "raised"}

\* task.cancel()
Cancel(w, h) ==
    IF h.kind = "recv"
    THEN [w EXCEPT !.pc[RecvTask(h.gen)] = "cancelled", !.loc[RecvTask(h.gen)] = NoLoc]
    ELSE IF h.kind = "hb" THEN [w EXCEPT !.hb[h.gen] = "cancelled"]
    ELSE [w EXCEPT !.proc[h.gen] = [NoProc EXCEPT !.pc = "cancelled"]]

\* the end of disconnect(): self._subscriptions.clear()
DiscFinish(w, u) == FinishOp([w EXCEPT !.subs = <<>>], u, "ok")

\* "if self._ws is not None: await self._ws.close()"
DiscClose(w, u) ==
    IF w.ws # 0
    THEN [w EXCEPT !.streams[w.ws] = IF @ = "open" THEN "closed" ELSE @,
                   !.pc[u] = "disc_closing",
                   !.loc[u].sstream = w.ws]
    ELSE DiscFinish(w, u)

\* the loop over the three task handles, from the head of dq up to the next
\* "await task" that has to wait
RECURSIVE DiscScan(_, _)
DiscScan(w, u) ==
    LET dq == w.loc[u].dq IN
    IF dq = <<>>
    THEN DiscClose(w, u)
    ELSE IF TaskLive(w, Head(dq))
    THEN [Cancel(w, Head(dq)) EXCEPT !.pc[u] = "disc_await"]
    ELSE DiscScan([w EXCEPT !.loc[u].dq = Tail(dq)], u)

\* disconnect() called by user u; dq is the list of the task handles that
\* are not None
disconnect(w, u) ==
    DiscScan([w EXCEPT !.should_reconnect = FALSE,
                       !.state = "closed",
                       !.loc[u].dq =
                           SelectSeq(<< [kind |-> "recv", gen |-> w.handles.receive_task],
                                        [kind |-> "hb", gen |-> w.handles.heartbeat_task],
                                        [kind |-> "proc", gen |-> w.handles.process_task] >>,
                                     LAMBDA h : h.gen # 0)], u)

\* "await task" returns: the next handle
DiscAwaited(w, u) == DiscScan([w EXCEPT !.loc[u].dq = Tail(@)], u)

\* "await self._ws.close()" returns: self._ws = None
DiscClosed(w, u) == DiscFinish([w EXCEPT !.ws = 0], u)

\* ---- _receive_loop, _process_loop, _heartbeat_loop -----------------------

\* the receive task starts: "if self._ws is None: return", then it iterates
\* over the stream self._ws names now
RecvStart(w, t) ==
    IF w.ws = 0
    THEN [w EXCEPT !.pc[t] = "done"]
    ELSE [w EXCEPT !.pc[t] = "iter", !.loc[t].bound = w.ws]

\* "channel and channel in self._subscriptions"
Routed(w, m) == m.key # <<>> /\ HasKey(w.subs, m.key)

\* variant: a message that finds the queue full is dropped
Route_DropWhenFull(w, t, m) ==
    IF Routed(w, m)
    THEN IF Lookup(w.subs, m.key).callback
         THEN [w EXCEPT !.pc[t] = "in_cb", !.cb_log = @ \cup {m}]
         ELSE w
    ELSE IF Len(w.queue) < message_queue_size
    THEN [w EXCEPT !.queue = Append(@, m)]
    ELSE w

\* what the loop body does with the parsed, non-heartbeat message m
Route(w, t, m) ==
    IF Routed(w, m)
    THEN IF Lookup(w.subs, m.key).callback
         THEN [w EXCEPT !.pc[t] = "in_cb", !.cb_log = @ \cup {m}]
         ELSE w
    ELSE IF Len(w.queue) < message_queue_size
    THEN [w EXCEPT !.queue = Append(@, m)]
    ELSE [w EXCEPT !.pc[t] = "putting", !.loc[t].msg = m]

\* _parse_message(raw_message) for a frame the hook accepts: the message,
\* tagged with its arrival number and the connection it was read from
Parsed(w, t, f) ==
    [kind |-> f.kind, key |-> f.key, id |-> w.n_read + 1, conn |-> w.loc[t].bound]

\* the body of "async for raw_message in self._ws" for the raw frame f
RecvBody(w, t, f) ==
    LET m == Parsed(w, t, f)
        w1 == [w EXCEPT !.n_read = @ + 1]
    IN IF f.kind = "garbage" THEN w1               \* _parse_message raises: logged
       ELSE IF is_heartbeat_response(m)            \* continue
       THEN [w1 EXCEPT !.n_pong = @ + 1]
       ELSE Route(w1, t, m)

\* "await sub.callback(message)" returns or raises (logged)
RecvCallbackDone(w, t) == [w EXCEPT !.pc[t] = "iter"]

\* "await self._message_queue.put(message)" gets its slot
RecvPut(w, t) ==
    [w EXCEPT !.queue = Append(@, w.loc[t].msg), !.pc[t] = "iter", !.loc[t].msg = <<>>]

\* the iteration ends without an exception: the loop and the task end
RecvClosedOk(w, t) == [w EXCEPT !.pc[t] = "done", !.loc[t] = NoLoc]

\* the backoff sleep of _reconnect returns: "await self.connect()"
ReconnectWake(w, t) == connect(w, t)

\* "await self._on_fallback_trigger()" returns: _reconnect and the task end
FallbackDone(w, t) == [w EXCEPT !.pc[t] = "done", !.loc[t] = NoLoc]

\* "while self.is_connected": sleep, or leave the loop
HbCheck(w, g) ==
    [w EXCEPT !.hb[g] = IF is_connected(w) THEN "sleep" ELSE "done"]

\* the sleep returns; msg is what _build_heartbeat_message returns
HbWake(w, g, msg) ==
    IF msg # "none" /\ w.ws # 0
    THEN [w EXCEPT !.hb[g] = "check",
                   !.hb_log = @ \cup {[gen |-> g, stream |-> w.ws, state |-> w.state]}]
    ELSE [w EXCEPT !.hb[g] = "check"]

\* "message = await self._message_queue.get()", up to the first listener
ProcGet(w, g) ==
    LET m == Head(w.queue) IN
    IF NumListeners = 0
    THEN [w EXCEPT !.queue = Tail(@)]
    ELSE [w EXCEPT !.queue = Tail(@),
                   !.proc[g] = [pc |-> "dispatch", msg |-> m, idx |-> 1],
                   !.lst_log = @ \cup {[listener |-> 1, msg |-> m]}]

\* "await callback(message)" of a listener returns or raises (logged)
ProcListenerDone(w, g) ==
    LET p == w.proc[g] IN
    IF p.idx < NumListeners
    THEN [w EXCEPT !.proc[g].idx = p.idx + 1,
                   !.lst_log = @ \cup {[listener |-> p.idx + 1, msg |-> p.msg]}]
    ELSE [w EXCEPT !.proc[g] = [NoProc EXCEPT !.pc = "get"]]

\* ---- actions ------------------------------------------------------------
others == <<now, lim_kind, rl_rate, limVars, tbVars, restVars>>

NextStream(w) == Cardinality({s \in Gens : w.streams[s] # "unopened"}) + 1

\* user u starts an API call; calls in flight together are marked
BeginOp(w, u, name) ==
    LET busy == {v \in Users : v # u /\ w.pc[v] # "idle"} IN
    [w EXCEPT !.n_ops = @ + 1,
              !.op[u] = name,
              !.conc = [v \in Users |->
                          IF v = u THEN busy # {}
                          ELSE IF v \in busy THEN TRUE ELSE w.conc[v]]]

\* callers are interchangeable: caller u > 1 is used only for a call that
\* overlaps a call of caller u - 1
CanCall(u) ==
    /\ cl.pc[u] = "idle"
    /\ cl.n_ops < cl.cfg.ops
    /\ u <= cl.cfg.users
    /\ (u > 1 => cl.pc[u - 1] # "idle")

UserConnect(u) ==
    /\ CanCall(u)
    /\ cl' = connect(BeginOp(cl, u, "connect"), u)
    /\ UNCHANGED others

UserDisconnect(u) ==
    /\ CanCall(u)
    /\ cl' = disconnect(BeginOp(cl, u, "disconnect"), u)
    /\ UNCHANGED others

UserSubscribe(u, req) ==
    /\ CanCall(u)
    /\ cl' = subscribe(BeginOp(cl, u, "subscribe"), u, req)
    /\ UNCHANGED others

UserUnsubscribe(u, req) ==
    /\ CanCall(u)
    /\ cl' = unsubscribe(BeginOp(cl, u, "unsubscribe"), u, req)
    /\ UNCHANGED others

\* a send completes only on a stream that is still open
SendCanSucceed(w, t) == w.streams[w.loc[t].sstream] = "open"

DoSubscribeSent(u, ok) ==
    /\ cl.pc[u] = "sub_send"
    /\ ok => SendCanSucceed(cl, u)
    /\ cl' = SubscribeSent(cl, u, ok)
    /\ UNCHANGED others

DoUnsubscribeSent(u, ok) ==
    /\ cl.pc[u] = "unsub_send"
    /\ ok => SendCanSucceed(cl, u)
    /\ cl' = UnsubscribeSent(cl, u, ok)
    /\ UNCHANGED others

DoDiscAwaited(u) ==
    /\ cl.pc[u] = "disc_await"
    /\ cl' = DiscAwaited(cl, u)
    /\ UNCHANGED others

DoDiscClosed(u) ==
    /\ cl.pc[u] = "disc_closing"
    /\ cl' = DiscClosed(cl, u)
    /\ UNCHANGED others

DoOpenFailed(t) ==
    /\ cl.pc[t] = "opening"
    /\ cl' = OpenFailed(cl, t)
    /\ UNCHANGED others

DoOpenSucceeded(t, listeners) ==
    /\ cl.pc[t] = "opening"
    /\ NextStream(cl) \in Gens
    /\ cl' = OpenSucceeded(cl, t, NextStream(cl), listeners)
    /\ UNCHANGED others

DoOnConnectDone(t, ok) ==
    /\ cl.pc[t] = "on_connect"
    /\ cl' = OnConnectDone(cl, t, ok)
    /\ UNCHANGED others

DoResubSent(t, ok) ==
    /\ cl.pc[t] = "resub_send"
    /\ ok => SendCanSucceed(cl, t)
    /\ cl' = ResubSent(cl, t, ok)
    /\ UNCHANGED others

DoRecvStart(g) ==
    /\ cl.pc[RecvTask(g)] = "created"
    /\ cl' = RecvStart(cl, RecvTask(g))
    /\ UNCHANGED others

DoRecvFrame(g, f) ==
    /\ cl.pc[RecvTask(g)] = "iter"
    /\ cl.streams[cl.loc[RecvTask(g)].bound] = "open"
    /\ cl.n_read < cl.cfg.frames
    /\ cl' = RecvBody(cl, RecvTask(g), f)
    /\ UNCHANGED others

DoRecvCallbackDone(g) ==
    /\ cl.pc[RecvTask(g)] = "in_cb"
    /\ cl' = RecvCallbackDone(cl, RecvTask(g))
    /\ UNCHANGED others

DoRecvPut(g) ==
    /\ cl.pc[RecvTask(g)] = "putting"
    /\ Len(cl.queue) < message_queue_size
    /\ cl' = RecvPut(cl, RecvTask(g))
    /\ UNCHANGED others

\* the iteration raises ConnectionClosed: the handler calls _reconnect
DoRecvClosedError(g) ==
    /\ cl.pc[RecvTask(g)] = "iter"
    /\ cl.streams[cl.loc[RecvTask(g)].bound] = "lost"
    /\ cl' = reconnect(cl, RecvTask(g))
    /\ UNCHANGED others

DoRecvClosedOk(g) ==
    /\ cl.pc[RecvTask(g)] = "iter"
    /\ cl.streams[cl.loc[RecvTask(g)].bound] \in {"ended", "closed"}
    /\ cl' = RecvClosedOk(cl, RecvTask(g))
    /\ UNCHANGED others

DoReconnectWake(g) ==
    /\ cl.pc[RecvTask(g)] = "backoff"
    /\ cl' = ReconnectWake(cl, RecvTask(g))
    /\ UNCHANGED others

DoFallbackDone(g) ==
    /\ cl.pc[RecvTask(g)] = "fallback"
    /\ cl' = FallbackDone(cl, RecvTask(g))
    /\ UNCHANGED others

DoHbCheck(g) ==
    /\ cl.hb[g] = "check"
    /\ cl' = HbCheck(cl, g)
    /\ UNCHANGED others

DoHbWake(g, msg) ==
    /\ cl.hb[g] = "sleep"
    /\ cl' = HbWake(cl, g, msg)
    /\ UNCHANGED others

DoProcGet(g) ==
    /\ cl.proc[g].pc = "get"
    /\ cl.queue # <<>>
    /\ cl' = ProcGet(cl, g)
    /\ UNCHANGED others

DoProcListenerDone(g) ==
    /\ cl.proc[g].pc = "dispatch"
    /\ cl' = ProcListenerDone(cl, g)
    /\ UNCHANGED others

\* "await sub.callback(message)" raises an exception that is not a subclass
\* of Exception (asyncio.CancelledError, SystemExit): neither except clause
\* of _receive_loop catches it and it ends the task
DoRecvCallbackEscapes(g) ==
    /\ cl.pc[RecvTask(g)] = "in_cb"
    /\ cl' = [cl EXCEPT !.pc[RecvTask(g)] = "raised", !.loc[RecvTask(g)] = NoLoc]
    /\ UNCHANGED others

\* "await callback(message)" of a listener raises an exception that is not a
\* subclass of Exception (asyncio.CancelledError, SystemExit): no clause of
\* the try statement catches it and it ends the task
DoProcListenerEscapes(g) ==
    /\ cl.proc[g].pc = "dispatch"
    /\ cl' = [cl EXCEPT !.proc[g].pc = "raised"]
    /\ UNCHANGED others

\* the peer or the network ends the stream: with an error, or cleanly
StreamLost(s) ==
    /\ cl.streams[s] = "open"
    /\ cl' = [cl EXCEPT !.streams[s] = "lost", !.at_loss[s] = cl.subs]
    /\ UNCHANGED others

StreamEnded(s) ==
    /\ cl.streams[s] = "open"
    /\ cl' = [cl EXCEPT !.streams[s] = "ended"]
    /\ UNCHANGED others

(***************************************************************************)
(* Initial states and specifications.                                      *)
(***************************************************************************)
\* the limiters as their constructors leave them; rate is the rate argument
\* of RateLimiter.__init__, which stores it as it is given
InitLimitersWith(kind, rate) ==
    /\ now = 0
    /\ lim_kind = kind
    /\ rl_rate = rate
    /\ rl_tokens = rate * Scale
    /\ rl_last = 0
    /\ rl_lock = 0
    /\ rl_waiters = <<>>
    /\ rl_pc = [c \in Callers |-> "none"]
    /\ rl_wake = [c \in Callers |-> 0]
    /\ rl_returned = 0
    /\ tb_tokens = TB_capacity
    /\ tb_last = 0
    /\ tb_lock = 0
    /\ tb_waiters = <<>>
    /\ tb_pc = [c \in Callers |-> "none"]
    /\ tb_wake = [c \in Callers |-> 0]
    /\ tb_ask = [c \in Callers |-> 1]

InitLimiters(kind) == InitLimitersWith(kind, RL_rate)

InitRequest(N) ==
    /\ retry_attempts = N
    /\ rq_pc = "idle"
    /\ rq_attempt = 0
    /\ rq_last_error = NoError
    /\ rq_result = NoError
    /\ rq_hist = <<>>
    /\ rq_sleeps = <<>>
    /\ rq_acq = 0
    /\ rq_auth = FALSE
    /\ rq_calls = 0

\* --- a limiter of either class, with NumCallers concurrent callers ---
InitLimiter ==
    /\ \E kind \in {"RateLimiter", "TokenBucketRateLimiter"} : InitLimiters(kind)
    /\ InitRequest(MaxRetry)
    /\ cl = InitClient

NextLimiter ==
    \/ Tick
    \/ \E c \in Callers :
        \/ lim_kind = "RateLimiter" /\ RL_Call(c) /\ UNCHANGED <<cl, now, lim_kind, rl_rate, tbVars, restVars>>
        \/ lim_kind = "RateLimiter" /\ RL_Granted(c) /\ UNCHANGED <<cl, now, lim_kind, rl_rate, tbVars, restVars>>
        \/ lim_kind = "RateLimiter" /\ RL_Wake(c) /\ UNCHANGED <<cl, now, lim_kind, rl_rate, tbVars, restVars>>
        \/ lim_kind = "RateLimiter" /\ RL_Return(c) /\ UNCHANGED <<cl, now, lim_kind, rl_rate, tbVars, restVars>>
        \/ \E n \in 1..TB_MaxAsk :
            lim_kind = "TokenBucketRateLimiter" /\ TB_acquire(c, n) /\ UNCHANGED <<cl, now, lim_kind, rl_rate, limVars, restVars>>
        \/ lim_kind = "TokenBucketRateLimiter" /\ TB_Granted(c) /\ UNCHANGED <<cl, now, lim_kind, rl_rate, limVars, restVars>>
        \/ lim_kind = "TokenBucketRateLimiter" /\ TB_Wake(c) /\ UNCHANGED <<cl, now, lim_kind, rl_rate, limVars, restVars>>
        \/ lim_kind = "TokenBucketRateLimiter" /\ TB_Return(c) /\ UNCHANGED <<cl, now, lim_kind, rl_rate, limVars, restVars>>
        \/ \E n \in 1..TB_MaxAsk :
            lim_kind = "TokenBucketRateLimiter" /\ TB_try_acquire(c, n) /\ UNCHANGED <<cl, now, lim_kind, rl_rate, limVars, restVars>>

SpecLimiter == InitLimiter /\ [][NextLimiter]_vars

\* --- a limiter of either class under fair scheduling, with a clock that
\* --- never stops ---
\* a recorded time, one tick further in the past
Back(t) == IF t = 0 THEN 0 ELSE t - 1

\* time.monotonic() advances by one tick.  Up to a horizon that is longer
\* than a full refill of the bucket of either class the clock itself is
\* advanced; from there on the same step is written by moving every recorded
\* time one tick into the past, which keeps every difference "now - t" up to
\* the horizon, so that the values stay in a finite range.
TickFair ==
    /\ IF now < TB_capacity + RL_rate * Scale
       THEN /\ now' = now + 1
            /\ UNCHANGED <<rl_last, rl_wake, tb_last, tb_wake>>
       ELSE /\ now' = now
            /\ rl_last' = Back(rl_last)
            /\ rl_wake' = [c \in Callers |-> Back(rl_wake[c])]
            /\ tb_last' = Back(tb_last)
            /\ tb_wake' = [c \in Callers |-> Back(tb_wake[c])]
    /\ UNCHANGED <<lim_kind, rl_rate, rl_tokens, rl_lock, rl_waiters, rl_pc,
                   rl_returned, tb_tokens, tb_lock, tb_waiters, tb_pc, tb_ask,
                   restVars, cl>>

\* the steps of caller c that the event loop runs by itself once they are
\* ready: the continuation of a coroutine that was handed the lock, whose
\* sleep is over, or whose acquire() has returned
LimiterResume(c) ==
    \/ lim_kind = "RateLimiter" /\ RL_Granted(c) /\ UNCHANGED <<cl, now, lim_kind, rl_rate, tbVars, restVars>>
    \/ lim_kind = "RateLimiter" /\ RL_Wake(c) /\ UNCHANGED <<cl, now, lim_kind, rl_rate, tbVars, restVars>>
    \/ lim_kind = "RateLimiter" /\ RL_Return(c) /\ UNCHANGED <<cl, now, lim_kind, rl_rate, tbVars, restVars>>
    \/ lim_kind = "TokenBucketRateLimiter" /\ TB_Granted(c) /\ UNCHANGED <<cl, now, lim_kind, rl_rate, limVars, restVars>>
    \/ lim_kind = "TokenBucketRateLimiter" /\ TB_Wake(c) /\ UNCHANGED <<cl, now, lim_kind, rl_rate, limVars, restVars>>
    \/ lim_kind = "TokenBucketRateLimiter" /\ TB_Return(c) /\ UNCHANGED <<cl, now, lim_kind, rl_rate, limVars, restVars>>

\* besides the clock and the continuations, the calls the application makes
\* when it chooses to; the history counter rl_returned is kept in range by
\* observing MaxTime acquisitions
NextFair ==
    \/ TickFair
    \/ \E c \in Callers :
        \/ LimiterResume(c)
        \/ /\ lim_kind = "RateLimiter"
           /\ rl_returned < MaxTime
           /\ RL_Call(c)
           /\ UNCHANGED <<cl, now, lim_kind, rl_rate, tbVars, restVars>>
        \/ \E n \in 1..TB_MaxAsk :
            lim_kind = "TokenBucketRateLimiter" /\ TB_acquire(c, n) /\ UNCHANGED <<cl, now, lim_kind, rl_rate, limVars, restVars>>
        \/ \E n \in 1..TB_MaxAsk :
            lim_kind = "TokenBucketRateLimiter" /\ TB_try_acquire(c, n) /\ UNCHANGED <<cl, now, lim_kind, rl_rate, limVars, restVars>>

\* fair scheduling: time passes, and a coroutine that is ready to continue
\* is run; nothing obliges the application to make a call
SpecFair ==
    /\ InitLimiter
    /\ [][NextFair]_vars
    /\ WF_vars(TickFair)
    /\ \A c \in Callers : WF_vars(LimiterResume(c))

\* --- a RateLimiter constructed with any rate from 0 to MaxRate ---
InitBucket ==
    /\ \E rate \in 0..MaxRate : InitLimitersWith("RateLimiter", rate)
    /\ InitRequest(MaxRetry)
    /\ cl = InitClient

NextBucket ==
    \/ Tick
    \/ \E c \in Callers :
        \/ RL_Call(c) /\ UNCHANGED <<cl, now, lim_kind, rl_rate, tbVars, restVars>>
        \/ RL_Granted(c) /\ UNCHANGED <<cl, now, lim_kind, rl_rate, tbVars, restVars>>
        \/ RL_Wake(c) /\ UNCHANGED <<cl, now, lim_kind, rl_rate, tbVars, restVars>>
        \/ RL_Return(c) /\ UNCHANGED <<cl, now, lim_kind, rl_rate, tbVars, restVars>>

SpecBucket == InitBucket /\ [][NextBucket]_vars

\* --- one client making request() calls ---
InitRest ==
    /\ InitLimiters("RateLimiter")
    /\ \E N \in 0..MaxRetry : InitRequest(N)
    /\ cl = InitClient

NextRest ==
    \/ Tick
    \/ \E auth \in BOOLEAN : request(auth)
    \/ \E ok \in BOOLEAN : ReqSigned(ok)
    \/ ReqAcquire
    \/ ReqAcquireWake
    \/ ReqSend
    \/ \E o \in Outcomes : ReqResponse(o)
    \/ ReqBackoffDone
    \/ ReqFinish

SpecRest == InitRest /\ [][NextRest]_vars

\* --- one unauthenticated request() call whose attempts time out or succeed,
\* --- with longer retry loops
InitBackoff ==
    /\ InitLimiters("RateLimiter")
    /\ \E N \in 0..MaxBackoff : InitRequest(N)
    /\ cl = InitClient

NextBackoff ==
    \/ TickTo(MaxBackoffTime)
    \/ request(FALSE)
    \/ ReqAcquire
    \/ ReqAcquireWake
    \/ ReqSend
    \/ \E o \in {x \in Outcomes : x.kind = "asyncio.TimeoutError"
                                  \/ (x.kind = "response" /\ x.status < 400)} :
          ReqResponse(o)
    \/ ReqBackoffDone
    \/ ReqFinish

SpecBackoff == InitBackoff /\ [][NextBackoff]_vars

\* --- one WebSocket client: its API callers, connect, reconnect, and the
\* --- subscription registry
InitWsWith(cfg) ==
    /\ InitLimiters("RateLimiter")
    /\ InitRequest(MaxRetry)
    /\ cl = [InitClient EXCEPT !.cfg = cfg]

UserActions(u) ==
    \/ UserConnect(u)
    \/ UserDisconnect(u)
    \/ \E req \in SubReqs : UserSubscribe(u, req)
    \/ \E ok \in BOOLEAN : DoSubscribeSent(u, ok)
    \/ DoDiscAwaited(u)
    \/ DoDiscClosed(u)

ConnectActions(t) ==
    \/ DoOpenFailed(t)
    \/ \E listeners \in BOOLEAN : DoOpenSucceeded(t, listeners)
    \/ \E ok \in BOOLEAN : DoOnConnectDone(t, ok)
    \/ \E ok \in BOOLEAN : DoResubSent(t, ok)

ReceiveActions(g) ==
    \/ DoRecvStart(g)
    \/ DoRecvClosedError(g)
    \/ DoRecvClosedOk(g)
    \/ DoReconnectWake(g)
    \/ DoFallbackDone(g)
    \/ StreamLost(g)
    \/ StreamEnded(g)

InitWs == InitWsWith([ops |-> MaxOps, users |-> NumUsers, frames |-> 0, hb_msgs |-> {}])

NextWs ==
    \/ \E u \in Users : UserActions(u)
    \/ \E t \in Tasks : ConnectActions(t)
    \/ \E g \in Gens : ReceiveActions(g)

SpecWs == InitWs /\ [][NextWs]_vars

\* --- the same client with one API caller making more calls, on streams
\* --- that stay up until the client closes them
InitSubs == InitWsWith([ops |-> SubOps, users |-> 1, frames |-> 0, hb_msgs |-> {}])

NextSubs ==
    \/ UserActions(1)
    \/ \E req \in SubReqs : UserUnsubscribe(1, req)
    \/ \E ok \in BOOLEAN : DoUnsubscribeSent(1, ok)
    \/ DoOpenFailed(1)
    \/ \E listeners \in BOOLEAN : DoOpenSucceeded(1, listeners)
    \/ \E ok \in BOOLEAN : DoOnConnectDone(1, ok)
    \/ \E g \in Gens : DoRecvStart(g)

SpecSubs == InitSubs /\ [][NextSubs]_vars

\* --- the same client connected by its caller and then left to its
\* --- reconnect algorithm
\* --- (one connect() by the caller; every later step is the client's own)
InitReconnect ==
    InitWsWith([ops |-> 1, users |-> 1, frames |-> 0, hb_msgs |-> {}])

NextReconnect ==
    \/ UserConnect(1)
    \/ \E t \in Tasks :
        \/ DoOpenFailed(t)
        \/ \E listeners \in BOOLEAN : DoOpenSucceeded(t, listeners)
        \/ \E ok \in BOOLEAN : DoOnConnectDone(t, ok)
    \/ \E g \in Gens : ReceiveActions(g)

SpecReconnect == InitReconnect /\ [][NextReconnect]_vars

\* --- the same client connected by its caller and left to its reconnect
\* --- algorithm, with heartbeat tasks whose hook returns a frame
InitHeartbeat ==
    InitWsWith([ops |-> 1, users |-> 1, frames |-> 0, hb_msgs |-> {"ping"}])

NextHeartbeat ==
    \/ UserConnect(1)
    \/ \E t \in Tasks :
        \/ DoOpenFailed(t)
        \/ DoOpenSucceeded(t, FALSE)
    \/ \E g \in Gens :
        \/ ReceiveActions(g)
        \/ DoHbCheck(g)
        \/ \E msg \in cl.cfg.hb_msgs : DoHbWake(g, msg)

SpecHeartbeat == InitHeartbeat /\ [][NextHeartbeat]_vars

\* --- the same client with its heartbeat tasks running ---
InitTasks == InitWsWith([ops |-> TaskOps, users |-> 1, frames |-> 0,
                         hb_msgs |-> {"none"}])

NextTasks ==
    \/ UserActions(1)
    \/ \E t \in Tasks : ConnectActions(t)
    \/ \E g \in Gens : ReceiveActions(g)
    \/ \E g \in Gens :
        \/ DoHbCheck(g)
        \/ \E msg \in cl.cfg.hb_msgs : DoHbWake(g, msg)

SpecTasks == InitTasks /\ [][NextTasks]_vars

\* --- the same client reading frames from a stream that stays up: routing,
\* --- the queue, the listeners
\* --- (the caller's two calls are one connect() and one subscribe())
InitPipe == InitWsWith([ops |-> 2, users |-> 1, frames |-> MaxFrames, hb_msgs |-> {}])

NextPipe ==
    \/ UserConnect(1)
    \/ \E req \in SubReqs : UserSubscribe(1, req)
    \/ \E ok \in BOOLEAN : DoSubscribeSent(1, ok)
    \/ DoOpenFailed(1)
    \/ \E listeners \in BOOLEAN : DoOpenSucceeded(1, listeners)
    \/ \E ok \in BOOLEAN : DoOnConnectDone(1, ok)
    \/ \E g \in Gens :
        \/ DoRecvStart(g)
        \/ \E f \in Frames : DoRecvFrame(g, f)
        \/ DoRecvCallbackDone(g)
        \/ DoRecvPut(g)
        \/ DoProcGet(g)
        \/ DoProcListenerDone(g)

SpecPipe == InitPipe /\ [][NextPipe]_vars

\* --- the same client connected once by its caller, reading frames while
\* --- its streams are lost and its reconnect algorithm replaces them
InitFlow == InitWsWith([ops |-> 1, users |-> 1, frames |-> MaxFrames, hb_msgs |-> {}])

NextFlow ==
    \/ UserConnect(1)
    \/ \E t \in Tasks :
        \/ DoOpenFailed(t)
        \/ \E listeners \in BOOLEAN : DoOpenSucceeded(t, listeners)
        \/ \E ok \in BOOLEAN : DoOnConnectDone(t, ok)
    \/ \E g \in Gens :
        \/ ReceiveActions(g)
        \/ \E f \in Frames : DoRecvFrame(g, f)
        \/ DoRecvPut(g)
        \/ DoProcGet(g)
        \/ DoProcListenerDone(g)

SpecFlow == InitFlow /\ [][NextFlow]_vars

\* --- the same client with one caller that connects and subscribes while
\* --- streams are lost and replaced
\* --- (three calls: enough for connect(), a subscribe() that stores an entry
\* --- and a subscribe() made in another state)
InitSubState == InitWsWith([ops |-> 3, users |-> 1, frames |-> 0, hb_msgs |-> {}])

NextSubState ==
    \/ UserConnect(1)
    \/ \E req \in SubReqs : UserSubscribe(1, req)
    \/ \E ok \in BOOLEAN : DoSubscribeSent(1, ok)
    \/ \E t \in Tasks :
        \/ DoOpenFailed(t)
        \/ DoOpenSucceeded(t, FALSE)
        \/ \E ok \in BOOLEAN : DoResubSent(t, ok)
    \/ \E g \in Gens :
        \/ DoRecvStart(g)
        \/ DoRecvClosedError(g)
        \/ DoReconnectWake(g)
        \/ DoFallbackDone(g)
        \/ StreamLost(g)

SpecSubState == InitSubState /\ [][NextSubState]_vars

\* --- the same client and calls, with subscription callbacks that return or
\* --- raise
NextCallbacks ==
    \/ NextPipe
    \/ \E g \in Gens : DoRecvCallbackEscapes(g)

SpecCallbacks == InitPipe /\ [][NextCallbacks]_vars

\* --- the same client connected once, reading frames from a stream that
\* --- stays up, with listeners that return or raise
InitListeners == InitWsWith([ops |-> 1, users |-> 1, frames |-> MaxFrames, hb_msgs |-> {}])

NextListeners ==
    \/ UserConnect(1)
    \/ DoOpenFailed(1)
    \/ \E listeners \in BOOLEAN : DoOpenSucceeded(1, listeners)
    \/ \E ok \in BOOLEAN : DoOnConnectDone(1, ok)
    \/ \E g \in Gens :
        \/ DoRecvStart(g)
        \/ \E f \in Frames : DoRecvFrame(g, f)
        \/ DoRecvPut(g)
        \/ DoProcGet(g)
        \/ DoProcListenerDone(g)
        \/ DoProcListenerEscapes(g)

SpecListeners == InitListeners /\ [][NextListeners]_vars

(***************************************************************************)
(* Properties of request().                                                *)
(***************************************************************************)
\* the outcome of an attempt is a response the code comments call not
\* retryable: a 4xx status, or an error the hook types AuthenticationError
NonRetryable(o) ==
    /\ o.kind = "response"
    /\ o.status >= 400
    /\ (o.status < 500 \/ o.etype = "AuthenticationError")

\* the outcome of an attempt is a transient failure: a 5xx response, a
\* connection failure, a timeout, an unclassified exception
Transient(o) ==
    \/ o.kind = "response" /\ o.status >= 500 /\ o.etype # "AuthenticationError"
    \/ o.kind \in {"ClientConnectorError", "asyncio.TimeoutError", "Exception"}

\* the error a transient failure of attempt k leaves to be remembered
Remembered(o, k) ==
    CASE o.kind = "response" -> [type |-> o.etype, src |-> "hook", at |-> k]
      [] o.kind = "ClientConnectorError" ->
            [type |-> "ConnectionError", src |-> "request", at |-> k]
      [] o.kind = "asyncio.TimeoutError" ->
            [type |-> "TimeoutError", src |-> "request", at |-> k]
      [] OTHER -> [type |-> "NetworkError", src |-> "request", at |-> k]

AllTransient == \A i \in DOMAIN rq_hist : Transient(rq_hist[i])

\* C1: a non-retryable response (4xx, or typed as an authentication error)
\* ends the call at once: it is the last attempt of the call, the call has
\* raised, and no backoff sleep follows it.
C1_NoRetryOfRejection ==
    \A i \in DOMAIN rq_hist :
        NonRetryable(rq_hist[i]) => (rq_pc = "raised" /\ Len(rq_hist) = i)

\* C2: with retry_attempts = N >= 1 and every attempt failing transiently,
\* the call makes at most N attempts, never returns, has raised exactly when
\* the N-th attempt has failed, and raises the error remembered from that
\* attempt, after N - 1 backoff sleeps.
C2_TransientExhaustion ==
    (retry_attempts >= 1 /\ rq_hist # <<>> /\ AllTransient) =>
        /\ Len(rq_hist) <= retry_attempts
        /\ rq_pc # "returned"
        /\ (rq_pc = "raised") <=> (Len(rq_hist) = retry_attempts)
        /\ rq_pc = "raised" =>
              rq_result = Remembered(rq_hist[retry_attempts], retry_attempts)
        /\ Len(rq_sleeps) <= retry_attempts - 1
        /\ rq_pc = "raised" => Len(rq_sleeps) = retry_attempts - 1

\* the attempts failed in different transient ways, the last one with a 5xx
\* response, and the call has raised the error the hook built for it
C2_Witness ==
    /\ retry_attempts = MaxRetry
    /\ rq_pc = "raised"
    /\ Len(rq_hist) = retry_attempts
    /\ AllTransient
    /\ rq_hist[1].kind = "ClientConnectorError"
    /\ rq_hist[retry_attempts].kind = "response"
    /\ rq_result = [type |-> "ExchangeError", src |-> "hook", at |-> retry_attempts]

\* C9: when the call raised because of a non-retryable response, the caller
\* gets the very error object the _parse_error hook returned for it.
C9_TypedErrorUnchanged ==
    (rq_pc = "raised" /\ rq_hist # <<>> /\ NonRetryable(rq_hist[Len(rq_hist)])) =>
        rq_result = ParseError(rq_hist[Len(rq_hist)], Len(rq_hist))

(***************************************************************************)
(* Properties of the rate limiters.                                        *)
(***************************************************************************)
\* C3: the token count of a limiter of either class is never negative and
\* never above its capacity.
C3_TokensInRange ==
    /\ 0 <= rl_tokens /\ rl_tokens <= RL_capacity
    /\ 0 <= tb_tokens /\ tb_tokens <= TB_capacity

\* a caller of RateLimiter.acquire() found less than one token, slept and
\* has got its grant, while another caller is queued on the lock
C3_Witness ==
    /\ lim_kind = "RateLimiter"
    /\ \E c \in Callers :
        /\ rl_pc[c] = "done"
        /\ rl_wake[c] > 0
        /\ now >= rl_wake[c]
        /\ rl_tokens = 0
    /\ now > rl_last

(***************************************************************************)
(* Properties of the WebSocket client.                                     *)
(***************************************************************************)
\* C4: a run of _reconnect whose connect attempts are used up invokes the
\* fallback trigger once (and no other run invokes it), leaves the state
\* DISCONNECTED as it hands over to the fallback, and ends no API call with
\* an error.
C4_FallbackOnce ==
    /\ [](\A g \in Gens : cl.fb[g] = IF cl.episode[g] = "exhausted" THEN 1 ELSE 0)
    /\ [][\A g \in Gens :
            (cl.episode[g] # "exhausted" /\ cl'.episode[g] = "exhausted") =>
                /\ cl'.state = "disconnected"
                /\ cl'.pc[RecvTask(g)] = "fallback"
                /\ cl.reconnect_count >= reconnect_attempts
                /\ \A u \in Users : cl'.pc[u] = cl.pc[u] /\ cl'.last[u] = cl.last[u]
         ]_vars

\* the stream was lost, reconnect_attempts calls of connect() failed, and
\* the fallback trigger is running
C4_Witness ==
    \E g \in Gens :
        /\ cl.episode[g] = "exhausted"
        /\ cl.tries[g] = reconnect_attempts
        /\ cl.streams[g] = "lost"
        /\ cl.pc[RecvTask(g)] = "fallback"
        /\ cl.fb[g] = 1
        /\ cl.state = "disconnected"

\* two parameter mappings are equal whatever the order of their items
SameMapping(p, q) == {p[i] : i \in DOMAIN p} = {q[i] : i \in DOMAIN q}
SameSubscription(a, b) == a.channel = b.channel /\ SameMapping(a.params, b.params)
\* the registry entries for the channel and mapping of req
Stored(w, req) == {i \in DOMAIN w.subs : SameSubscription(w.subs[i].sub, req)}

\* C5: while connected and with a Subscription stored for the channel and
\* mapping of req, a subscribe() call for req, in any item order, returns
\* at once: no frame is sent, the registry is unchanged and holds one entry
\* for it.
C5_DuplicateSubscribeNoOp ==
    \A u \in Users, req \in SubReqs :
        (cl.pc[u] = "idle" /\ is_connected(cl) /\ Stored(cl, req) # {}) =>
            LET w == subscribe(BeginOp(cl, u, "subscribe"), u, req) IN
            /\ w.pc[u] = "idle"
            /\ w.last[u].res = "ok"
            /\ w.frames = cl.frames
            /\ w.subs = cl.subs
            /\ Cardinality(Stored(w, req)) = 1

\* a subscribe() call has returned without sending although its params were
\* given in another order than those of the stored Subscription
C5_Witness ==
    \E u \in Users, i \in DOMAIN cl.subs :
        /\ cl.pc[u] = "idle"
        /\ cl.last[u].op = "subscribe"
        /\ cl.last[u].res = "ok"
        /\ is_connected(cl)
        /\ SameSubscription(cl.subs[i].sub, cl.last[u].req)
        /\ cl.subs[i].sub.params # cl.last[u].req.params
        /\ cl.frames[cl.ws][cl.subs[i].key] = 1
        /\ Len(cl.subs) = 1

\* C6: while disconnect() has not been called, a run of _resubscribe_all
\* made by a reconnect, once it has ended, has issued one subscribe frame
\* for every entry of the registry it started from, in their order.
C6_ResubscribesEveryEntry ==
    \A g \in Gens :
        (cl.should_reconnect /\ cl.resub[RecvTask(g)] \in {"finished", "aborted"}) =>
            cl.rs_sent[RecvTask(g)] = cl.rs_snap[RecvTask(g)]

\* C7: no connect() call opens a stream when another connect() call opened
\* one while it was suspended in the opening.
C7_OneStreamPerOverlap == \A s \in Gens : cl.rivals[s] = {}

\* disconnect() of user u returns in this step
DisconnectReturns(u) ==
    /\ UserDisconnect(u) \/ DoDiscAwaited(u) \/ DoDiscClosed(u)
    /\ cl'.pc[u] = "idle"

\* no receive, heartbeat or process task is running
NoLiveTask(w) ==
    \A g \in Gens, k \in {"recv", "hb", "proc"} : ~TaskLive(w, [kind |-> k, gen |-> g])

\* C8: when disconnect() returns, should_reconnect is false, the state is
\* CLOSED, no background task of the client is running, the stream is closed
\* and released, and the registry is empty.
C8_DisconnectCleansUp ==
    [][\A u \in Users : DisconnectReturns(u) =>
            /\ ~cl'.should_reconnect
            /\ cl'.state = "closed"
            /\ NoLiveTask(cl')
            /\ cl'.ws = 0
            /\ \A s \in Gens : cl'.streams[s] # "open"
            /\ cl'.subs = <<>>
      ]_vars

\* the messages handed to a subscription callback, put on the queue (or
\* waiting for a slot of it), or handed to a listener
Delivered ==
    cl.cb_log
    \cup {cl.queue[i] : i \in DOMAIN cl.queue}
    \cup {cl.loc[t].msg : t \in {x \in Tasks : cl.pc[x] = "putting"}}
    \cup {cl.proc[g].msg : g \in {x \in Gens : cl.proc[x].pc = "dispatch"}}
    \cup {x.msg : x \in cl.lst_log}

\* C10: no heartbeat response is handed to a subscription callback, put on
\* the queue, or handed to a listener.
C10_HeartbeatNeverDelivered == \A m \in Delivered : m.kind # "pong"

\* the first frame read was a heartbeat response and was dropped, and the
\* data frame read after it on the same stream was delivered
C10_Witness ==
    /\ cl.n_pong = 1
    /\ Delivered # {}
    /\ \A m \in Delivered : m.id = 2

(***************************************************************************)
(* Properties of the receive loop's routing and of the general queue.      *)
(***************************************************************************)
\* the subscription a message's routing key matches has a callback
CallbackMatch(w, m) == Routed(w, m) /\ Lookup(w.subs, m.key).callback

\* the receive task t hands m to the general queue: it is appended, or the
\* task waits in put() with it
Enqueues(t, m) ==
    \/ cl'.queue = Append(cl.queue, m) /\ cl'.pc[t] = "iter"
    \/ cl'.pc[t] = "putting" /\ cl'.loc[t].msg = m /\ cl'.queue = cl.queue

\* C11: every decoded, non-heartbeat message is either given to the callback
\* of the subscription its routing key matches (and not enqueued), or, in
\* every other case, also that of a matching subscription without a
\* callback, put on the general queue; none is discarded.
C11_CallbackOrQueue ==
    [][\A g \in Gens : \A f \in Frames :
          (DoRecvFrame(g, f) /\ f.kind = "data") =>
              LET t == RecvTask(g)
                  m == Parsed(cl, t, f)
              IN IF CallbackMatch(cl, m)
                 THEN /\ cl'.cb_log = cl.cb_log \cup {m}
                      /\ cl'.pc[t] = "in_cb"
                      /\ cl'.queue = cl.queue
                 ELSE /\ Enqueues(t, m)
                      /\ cl'.cb_log = cl.cb_log]_vars

\* C12: the general queue never holds more than message_queue_size
\* messages; a message that finds it full is kept by the receive task, which
\* waits in put(), reads no frame meanwhile, and appends the message once
\* the consumer has freed a slot.
C12_QueueBlocksWhenFull ==
    /\ [](Len(cl.queue) <= message_queue_size)
    /\ [][\A g \in Gens :
            LET t == RecvTask(g) IN
            /\ \A f \in Frames :
                 (DoRecvFrame(g, f) /\ f.kind = "data" /\ ~Routed(cl, Parsed(cl, t, f)))
                     => /\ Enqueues(t, Parsed(cl, t, f))
                        /\ (cl'.pc[t] = "putting") <=> (Len(cl.queue) = message_queue_size)
            /\ cl.pc[t] = "putting" =>
                 /\ \A f \in Frames : ~DoRecvFrame(g, f)
                 /\ \/ cl'.pc[t] = "putting" /\ cl'.loc[t] = cl.loc[t]
                    \/ /\ cl'.pc[t] = "iter"
                       /\ Len(cl.queue) < message_queue_size
                       /\ cl'.queue = Append(cl.queue, cl.loc[t].msg)]_vars

\* the queue is full and the receive task waits in put() with the next
\* message while the consumer is ready to take one
C12_Witness ==
    \E g \in Gens :
        /\ cl.pc[RecvTask(g)] = "putting"
        /\ Len(cl.queue) = message_queue_size
        /\ cl.loc[RecvTask(g)].msg.id = message_queue_size + 1
        /\ cl.loc[RecvTask(g)].msg.kind = "data"
        /\ cl.proc[g].pc = "get"

\* messages that were handed to the general queue
QueuedMsgs ==
    {cl.queue[i] : i \in DOMAIN cl.queue}
    \cup {cl.loc[t].msg : t \in {x \in Tasks : cl.pc[x] = "putting"}}
    \cup {cl.proc[g].msg : g \in {x \in Gens : cl.proc[x].pc = "dispatch"}}
    \cup {x.msg : x \in cl.lst_log}

\* C13: of two messages of one connection that both go to the general queue,
\* every listener starts the earlier one first, and has finished it before
\* the later one is handed to it; also on connections a reconnect made.
C13_ListenersInArrivalOrder ==
    /\ \A x \in cl.lst_log : \A m1 \in QueuedMsgs :
          (m1.conn = x.msg.conn /\ m1.id < x.msg.id)
              => [listener |-> x.listener, msg |-> m1] \in cl.lst_log
    /\ \A g1, g2 \in Gens :
          (/\ g1 # g2
           /\ cl.proc[g1].pc = "dispatch"
           /\ cl.proc[g2].pc = "dispatch"
           /\ cl.proc[g1].msg.conn = cl.proc[g2].msg.conn
           /\ cl.proc[g1].msg.id < cl.proc[g2].msg.id)
              => cl.proc[g2].idx < cl.proc[g1].idx

(***************************************************************************)
(* Properties of the subscription registry.                                *)
(***************************************************************************)
\* C14: unsubscribe() for a key of the registry, called while connected,
\* removes the entry whether the send of the unsubscribe frame completes or
\* fails, and unsubscribe() never raises.
C14_UnsubscribeRemoves ==
    [][\A u \in Users :
          /\ \A ok \in BOOLEAN :
                DoUnsubscribeSent(u, ok) =>
                    /\ ~HasKey(cl'.subs, KeyOf(cl.loc[u].req))
                    /\ cl'.last[u].res = "ok"
          /\ \A req \in SubReqs :
                (UserUnsubscribe(u, req) /\ cl'.pc[u] = "idle") => cl'.last[u].res = "ok"]_vars

\* C15: every subscription, with its callback, that is in the registry when
\* a stream is lost is in the registry again when the connect() call of the
\* reconnect algorithm started for that loss completes successfully (the
\* caller makes no unsubscribe() call).
C15_SubscriptionsSurviveReconnect ==
    [][\A g \in Gens :
          (cl.episode[g] # "reconnected" /\ cl'.episode[g] = "reconnected")
              => \A i \in DOMAIN cl.at_loss[g] :
                    \E j \in DOMAIN cl'.subs : cl'.subs[j] = cl.at_loss[g][i]]_vars

(***************************************************************************)
(* Further properties of request().                                        *)
(***************************************************************************)
\* C16: a failure of the signing hook ends request() at once: no acquire(),
\* no attempt, no sleep, no retry; and the hook is not invoked when
\* auth_required is false.
C16_SignFailurePropagates ==
    /\ [](rq_pc = "signing" => rq_auth)
    /\ [](rq_result.src = "sign" =>
             /\ rq_auth
             /\ rq_pc = "raised"
             /\ rq_acq = 0
             /\ rq_hist = <<>>
             /\ rq_sleeps = <<>>)
    /\ [][ReqSigned(FALSE) =>
             /\ rq_pc' = "raised"
             /\ rq_result' = Error("SignError", "sign", 0)
             /\ UNCHANGED limVars]_vars

C16_Witness ==
    /\ rq_pc = "raised"
    /\ rq_auth
    /\ rq_result = Error("SignError", "sign", 0)
    /\ retry_attempts = MaxRetry
    /\ rq_acq = 0
    /\ rq_hist = <<>>
    /\ rl_tokens = RL_capacity

\* C17: within one request() call every physical attempt is issued right
\* after one completed RateLimiter.acquire(), so completed acquire() calls
\* and attempts are equal in number.
C17_AcquirePerAttempt ==
    /\ [](rq_acq = Len(rq_hist) + (IF rq_pc = "inflight" THEN 1 ELSE 0))
    /\ [][(rq_pc # "inflight" /\ rq_pc' = "inflight") =>
             /\ rq_pc = "acquiring"
             /\ rl_pc[Requester] = "done"
             /\ rq_acq' = rq_acq + 1]_vars

C17_Witness ==
    /\ rq_pc = "raised"
    /\ retry_attempts = MaxRetry
    /\ Len(rq_hist) = MaxRetry
    /\ rq_acq = MaxRetry
    /\ Len(rq_sleeps) = MaxRetry - 1

\* C18: the i-th backoff sleep of a call, which follows failed attempt
\* i - 1, lasts min(retry_delay * retry_multiplier^(i-1), retry_delay_max);
\* no sleep follows the final attempt; three failing attempts with the
\* default delays sleep 1 and then 2.
C18_BackoffDelays ==
    /\ \A i \in DOMAIN rq_sleeps :
          rq_sleeps[i] = Min(retry_delay * Pow(retry_multiplier, i - 1), retry_delay_max)
    /\ Len(rq_sleeps) = IF rq_pc \in {"raised", "returned"} /\ rq_hist # <<>>
                        THEN Len(rq_hist) - 1
                        ELSE Len(rq_hist)
    /\ (retry_attempts = 3 /\ rq_pc = "raised" /\ retry_delay = 1 /\ retry_multiplier = 2
          /\ retry_delay_max = 10)
          => rq_sleeps = <<1, 2>>

C18_Witness ==
    /\ retry_attempts = MaxBackoff
    /\ rq_pc = "raised"
    /\ Len(rq_hist) = MaxBackoff
    /\ rq_sleeps[Len(rq_sleeps)] = retry_delay_max
    /\ \E i \in DOMAIN rq_sleeps : rq_sleeps[i] < retry_delay_max

\* C19: a response of status >= 400 that _parse_error types as
\* RateLimitError ends the call: that error is raised to the caller and no
\* further attempt is made.
C19_RateLimitErrorSurfaced ==
    \A i \in DOMAIN rq_hist :
        (/\ rq_hist[i].kind = "response"
         /\ rq_hist[i].status >= 400
         /\ rq_hist[i].etype = "RateLimitError")
            => /\ rq_pc = "raised"
               /\ Len(rq_hist) = i
               /\ rq_result = ParseError(rq_hist[i], i)

\* C20: a request() call makes at most retry_attempts attempts, ends with
\* one outcome (the response returned or one error raised), and ends at the
\* first attempt that received a response of status below 400: no sleep and
\* no attempt follow it.
C20_EndsAtFirstSuccess ==
    /\ Len(rq_hist) <= retry_attempts
    /\ (rq_pc \in {"returned", "raised"}) <=> (rq_result # NoError)
    /\ \A i \in DOMAIN rq_hist :
          (rq_hist[i].status >= 1 /\ rq_hist[i].status < 400)
              => /\ Len(rq_hist) = i
                 /\ rq_pc \in {"returned", "raised"}

(***************************************************************************)
(* Properties of the connection state machine.                             *)
(***************************************************************************)
\* C21: CLOSED is terminal: once disconnect() has set the state to CLOSED,
\* no API call, reconnect step or stream event changes the state again.
C21_ClosedIsTerminal ==
    [][cl.state = "closed" => cl'.state = "closed"]_vars

\* C22: when opening the stream fails or times out in a connect() called by
\* the application, the state becomes DISCONNECTED and the call raises the
\* connection error; the fallback trigger is not invoked by that failure
\* (no invocation is counted and no task enters the fallback).
C22_DirectConnectFailure ==
    [][\A u \in Users :
          DoOpenFailed(u) =>
              /\ cl'.state = "disconnected"
              /\ cl'.pc[u] = "idle"
              /\ cl'.last[u].op = "connect"
              /\ cl'.last[u].res = "WebSocketConnectionError"
              /\ cl'.fb = cl.fb
              /\ \A t \in Tasks : cl'.pc[t] = "fallback" => cl.pc[t] = "fallback"]_vars

C22_Witness ==
    /\ cl.last[1].op = "connect"
    /\ cl.last[1].res = "WebSocketConnectionError"
    /\ cl.state = "disconnected"
    /\ \A g \in Gens : cl.fb[g] = 0

\* C23: subscribe() called in a state other than CONNECTED raises the
\* disconnected error, sends no frame and leaves the registry unchanged; a
\* send that fails raises the subscription error and stores nothing.
C23_SubscribeNeedsConnection ==
    [][\A u \in Users :
          /\ \A req \in SubReqs :
                (UserSubscribe(u, req) /\ cl.state # "connected") =>
                    /\ cl'.pc[u] = "idle"
                    /\ cl'.last[u].op = "subscribe"
                    /\ cl'.last[u].res = "WebSocketDisconnectedError"
                    /\ cl'.frames = cl.frames
                    /\ cl'.subs = cl.subs
          /\ DoSubscribeSent(u, FALSE) =>
                /\ cl'.pc[u] = "idle"
                /\ cl'.last[u].res = "WebSocketSubscriptionError"
                /\ cl'.subs = cl.subs]_vars

C23_Witness ==
    /\ cl.last[1].op = "subscribe"
    /\ cl.last[1].res = "WebSocketDisconnectedError"
    /\ cl.state = "reconnecting"
    /\ cl.subs # <<>>

\* C24: an exception raised by a general-message listener never stops the
\* consumer loop: no consumer task is ever ended by what a listener raised.
C24_ListenerErrorsContained ==
    \A g \in Gens : cl.proc[g].pc # "raised"

\* the step in which disconnect() of user u reaches "await self._ws.close()"
DisconnectClosesStream(u) ==
    /\ UserDisconnect(u) \/ DoDiscAwaited(u)
    /\ cl'.pc[u] = "disc_closing"

\* C25: disconnect() closes the stream only after every background task was
\* cancelled and has ended: at the step that closes the stream no receive,
\* heartbeat or process task of the client is running.
C25_TasksEndBeforeClose ==
    [][\A u \in Users : DisconnectClosesStream(u) => NoLiveTask(cl')]_vars

(***************************************************************************)
(* Properties of the rate limiters.                                        *)
(***************************************************************************)
\* C26: every mutation of the token count and of the refill timestamp
\* happens inside the limiter's lock: while a caller sleeps inside acquire()
\* holding the lock, between its refill and its consumption, a step changes
\* the token count or the timestamp only if it is that caller's own.
C26_MutationUnderLock ==
    [][\A c \in Callers :
          /\ (/\ tb_lock = c
              /\ tb_pc[c] = "sleeping"
              /\ <<tb_tokens, tb_last>>' # <<tb_tokens, tb_last>>) => TB_Wake(c)
          /\ (/\ rl_lock = c
              /\ rl_pc[c] = "sleeping"
              /\ <<rl_tokens, rl_last>>' # <<rl_tokens, rl_last>>) => RL_Wake(c)]_vars

\* C27: a limiter configured with rate = 0 is rejected at construction: no
\* limiter with rate 0 exists on which acquire() could be called, fail or
\* hang.
C27_ZeroRateRejected ==
    rl_rate = 0 => \A c \in Callers : rl_pc[c] = "none"

\* caller c enters the body of acquire() in this step
EntersCritical(c) == (RL_Call(c) /\ rl_lock = 0) \/ RL_Granted(c)

\* C28: an acquire() that finds at least one token after the refill takes
\* one and does not wait; one that finds t < 1 tokens waits exactly
\* (1 - t) * interval / capacity.  With capacity 5 and 5 tokens per interval,
\* calls made back to back on a full bucket wait only once the five tokens
\* are consumed, and that sixth call waits a fifth of the interval.
C28_WaitTime ==
    /\ [](\A c \in Callers :
            rl_pc[c] = "sleeping" =>
                /\ rl_tokens < Scale
                /\ (rl_wake[c] - rl_last) * RL_capacity
                       = (Scale - rl_tokens) * RL_interval
                /\ (rl_rate = 5 /\ now = 0) =>
                       (rl_tokens = 0 /\ rl_wake[c] * 5 = RL_interval))
    /\ [][\A c \in Callers :
            (EntersCritical(c) /\ RL_Refill(rl_tokens, now - rl_last) >= Scale) =>
                /\ rl_tokens' = RL_Refill(rl_tokens, now - rl_last) - Scale
                /\ rl_pc'[c] = "done"
                /\ rl_wake' = rl_wake]_vars

C28_Witness ==
    /\ rl_rate = 5
    /\ now = 0
    /\ rl_tokens = 0
    /\ \E c \in Callers : rl_pc[c] = "sleeping" /\ rl_wake[c] * 5 = RL_interval

\* the calls of the client's API: connect() of caller u was in flight when
\* caller v invoked disconnect(), and both calls have finished
DisconnectDuringConnect(u, v) ==
    /\ cl.n_ops = 2
    /\ cl.pc[u] = "idle" /\ cl.last[u].op = "connect"
    /\ cl.pc[v] = "idle" /\ cl.last[v].op = "disconnect"
    /\ cl.conc[v]

\* C29: when disconnect() is invoked while a connect() is suspended opening
\* the stream, then once both calls have finished the state is CLOSED, no
\* stream is open and no background task is running.
C29_DisconnectWinsOverConnect ==
    \A u, v \in Users :
        (u < v /\ DisconnectDuringConnect(u, v)) =>
            /\ cl.state = "closed"
            /\ \A s \in Gens : cl.streams[s] # "open"
            /\ NoLiveTask(cl)

\* the tasks of one kind ("recv", "hb", "proc") that are running
LiveTasks(k) == {g \in Gens : TaskLive(cl, [kind |-> k, gen |-> g])}

\* C30: at every moment the client has at most one running receive task, at
\* most one running heartbeat task and at most one running process task,
\* also after automatic reconnects.
C30_OneTaskOfEachKind ==
    \A k \in {"recv", "hb", "proc"} : Cardinality(LiveTasks(k)) <= 1

(***************************************************************************)
(* Properties of the WebSocket client under overlapping activity.          *)
(***************************************************************************)
\* task t (an API caller in subscribe(), or a task in _resubscribe_all) is
\* suspended in the send of the subscribe frame of key k on stream s
Sending(t, s, k) ==
    /\ cl.loc[t].sstream = s
    /\ \/ cl.pc[t] = "sub_send" /\ KeyOf(cl.loc[t].req) = k
       \/ cl.pc[t] = "resub_send" /\ KeyOf(Head(cl.loc[t].pend)) = k

\* C31: on one connection at most one subscribe frame is sent for one
\* subscription key, whatever the interleaving of subscribe() calls and
\* _resubscribe_all: no two sends of the frame of one key are in progress on
\* one stream.
C31_OneFramePerKey ==
    \A s \in Gens, k \in SubKeys, t1, t2 \in Tasks :
        (Sending(t1, s, k) /\ Sending(t2, s, k)) => t1 = t2

\* C32: a reconnect episode calls connect() at most reconnect_attempts
\* times before it ends with a connection or with the fallback: the number
\* of connect() calls that have failed in one episode never exceeds
\* reconnect_attempts, also when a connect() fails after it opened the stream.
C32_ReconnectAttemptsBounded ==
    \A g \in Gens : cl.tries[g] <= reconnect_attempts

\* the latest call of the application is a disconnect(), in progress or
\* finished: no connect() was called after it
DisconnectIsLatestCall ==
    \E u \in Users :
        /\ cl.cfg.users = 1
        /\ \/ cl.op[u] = "disconnect"
           \/ cl.pc[u] = "idle" /\ cl.last[u].op = "disconnect"

\* C33: after disconnect() was invoked, and until the application calls
\* connect() again, the reconnect algorithm starts no connect attempt and the
\* state is never RECONNECTING, CONNECTING or CONNECTED.
C33_NoReconnectAfterDisconnect ==
    DisconnectIsLatestCall =>
        /\ cl.state \notin {"reconnecting", "connecting", "connected"}
        /\ \A t \in Tasks : cl.pc[t] # "opening"

\* C34: in a reconnect episode the j-th connect attempt (j = 0, 1, ...; j is
\* the number of attempts that failed before it) is preceded by a sleep of
\* min(reconnect_delay * reconnect_multiplier^j, reconnect_delay_max); the
\* attempt counter stays between 0 and reconnect_attempts and is 0 whenever
\* the state is CONNECTED.
C34_ReconnectDelays ==
    /\ 0 <= cl.reconnect_count /\ cl.reconnect_count <= reconnect_attempts
    /\ cl.state = "connected" => cl.reconnect_count = 0
    /\ \A g \in Gens :
          cl.pc[RecvTask(g)] = "backoff" =>
              cl.loc[RecvTask(g)].delay
                  = Min(reconnect_delay * Pow(reconnect_multiplier, cl.tries[g]),
                        reconnect_delay_max)

\* C35: the limiter enforces the token-bucket rate: from the construction of
\* the limiter, when the bucket holds rate tokens, the number of acquire()
\* calls that have returned by time now is at most
\* rate + now * rate / interval.
C35_RateEnforced ==
    rl_rate >= 1 =>
        rl_returned * RL_interval <= rl_rate * RL_interval + now * rl_rate

\* C36: a failure while one inbound frame is handled (the parse hook fails,
\* or a subscription callback raises) never ends the receive loop: no
\* receive task is ever ended by what the handling of a frame raised.
C36_FrameErrorsContained ==
    \A g \in Gens : cl.pc[RecvTask(g)] # "raised"

\* C37: a heartbeat frame is sent, or its send attempted, only at moments
\* when the state is CONNECTED.
C37_HeartbeatOnlyWhenConnected ==
    \A h \in cl.hb_log : h.state = "connected"

\* C38: when the stream ends while should_reconnect is true, with a
\* connection-closed error or by the frame iteration simply ending, the
\* client leaves the state CONNECTED: it is never CONNECTED on a stream that
\* is over with no receive task left to notice it.
C38_StreamEndLeavesConnected ==
    (/\ cl.state = "connected"
     /\ cl.should_reconnect
     /\ cl.ws # 0
     /\ cl.streams[cl.ws] \in {"lost", "ended"})
        => LiveTasks("recv") # {}

\* the step in which connect() called by user u raises the connection error
ConnectCallRaises(u) ==
    /\ cl.op[u] = "connect"
    /\ cl'.pc[u] = "idle"
    /\ cl'.last[u].op = "connect"
    /\ cl'.last[u].res = "WebSocketConnectionError"

\* C39: when connect() raises a connection error, also after the stream was
\* opened and an on-connect listener or the resubscription failed, the state
\* is DISCONNECTED, no stream is left open and no receive, heartbeat or
\* process task is running.
C39_FailedConnectLeavesNothing ==
    [][\A u \in Users :
          ConnectCallRaises(u) =>
              /\ cl'.state = "disconnected"
              /\ \A s \in Gens : cl'.streams[s] # "open"
              /\ NoLiveTask(cl')]_vars

(***************************************************************************)
(* Termination of acquire().                                               *)
(***************************************************************************)
\* caller c is inside acquire(): waiting for the lock, or holding it
Acquiring(c) ==
    \/ rl_pc[c] \in {"queued", "granted", "sleeping"}
    \/ tb_pc[c] \in {"queued", "granted", "sleeping"}

\* acquire() of caller c has returned
Acquired(c) == rl_pc[c] = "done" \/ tb_pc[c] = "done"

\* C40: under fair scheduling every acquire() call on a limiter with a
\* positive rate and a capacity of at least one token eventually returns,
\* whatever the other callers do with acquire() and try_acquire().
C40_AcquireReturns == \A c \in Callers : Acquiring(c) ~> Acquired(c)

====
